---------------------------- MODULE Spec2Model ----------------------------
(***************************************************************************)
(* A model of remark-code-import (src/src/index.ts): the directive parser, *)
(* the path sandbox, classic line-range extraction, group ("inline")       *)
(* extraction and the transformer's sequential and promise-based passes.   *)
(*                                                                         *)
(* JavaScript strings are modelled as sequences of one-character strings,  *)
(* so that split, includes, startsWith, the regular expressions and join   *)
(* are computed character by character.  A JavaScript value that may be    *)
(* undefined is a sequence of length at most one: << >> is undefined and   *)
(* <<v>> is the value v.                                                   *)
(***************************************************************************)
EXTENDS Integers, Sequences, FiniteSets, TLC

VARIABLES
    meta,                    \* SpecExtract: node.meta of the code node
    content,                 \* SpecExtract: the text of the imported file
    oldValue,                \* SpecExtract: node.value before the import
    preserveTrailingNewline, \* options.preserveTrailingNewline
    pc,                      \* SpecExtract: "parse", "extract", "done", "error"
    directive,               \* SpecExtract: what lines 139-170 computed
    result,                  \* SpecExtract: what extractLines returned
    tree,                    \* SpecPass: the code nodes, in visit order
    options,                 \* SpecPass: async, allowImportingFromOutside
    dirname,                 \* SpecPass: file.dirname
    cursor,                  \* SpecPass: index of the node the for loop is at
    promises,                \* SpecPass: states of the promises pushed, by node
    status,                  \* SpecPass: how the call of transformer stands
    error,                   \* SpecPass: the error the caller receives
    reads,                   \* SpecPass: paths handed to fs.readFile[Sync]
    written,                 \* SpecPass: nodes whose value has been assigned
    modes,                   \* SpecPass: the mode computed for each node
    document                 \* SpecPass: the code nodes as the pass received them

vars == <<meta, content, oldValue, preserveTrailingNewline, pc, directive,
          result, tree, options, dirname, cursor, promises, status, error,
          reads, written, modes, document>>

extractVars == <<meta, content, oldValue, pc, directive, result>>
passVars == <<tree, options, dirname, cursor, promises, status, error,
              reads, written, modes, document>>

---------------------------------------------------------------------------
(* Bounds of the model.                                                    *)

MaxContentLen == 4    \* characters of a file given to classic extraction
MaxLineNo == 3        \* largest line number written in a directive
MaxFileLines == 5     \* lines of a file given to group extraction
MaxTemplate == 2      \* lines of a placeholder body used as a template
MaxNodes == 2         \* code nodes of a document

---------------------------------------------------------------------------
(* JavaScript values and string operations.                                *)

Undefined == << >>
Some(v) == <<v>>
IsDefined(o) == o # << >>
Min(a, b) == IF a < b THEN a ELSE b
Max(a, b) == IF a > b THEN a ELSE b

\* os.EOL on the POSIX platforms the package is built and tested on.
EOL == "\n"
CR == "\r"
\* The line terminators among the characters of the model's texts (U+2028
\* and U+2029 are the other two).
LineTerminators == {EOL, CR}

Digits == {"0", "1", "2", "3", "4", "5", "6", "7", "8", "9"}
Letters == {"a", "b", "c", "d", "e", "f", "g", "h", "i", "j", "k", "l", "m",
            "n", "o", "p", "q", "r", "s", "t", "u", "v", "w", "x", "y", "z",
            "A", "B", "C", "D", "E", "F", "G", "H", "I", "J", "K", "L", "M",
            "N", "O", "P", "Q", "R", "S", "T", "U", "V", "W", "X", "Y", "Z"}
\* The character class [\w\-_] of getGroup's regular expression.
GroupNameChars == Letters \cup Digits \cup {"_", "-"}

\* String.prototype.startsWith
StartsWith(s, p) ==
    /\ Len(s) >= Len(p)
    /\ SubSeq(s, 1, Len(p)) = p

\* s from (1-based) position i to its end
From(s, i) == SubSeq(s, i, Len(s))

\* The 1-based position of the leftmost occurrence of p in s, 0 if none.
IndexOf(s, p) ==
    LET hits == {i \in 1..(Len(s) - Len(p) + 1) : SubSeq(s, i, i + Len(p) - 1) = p}
    IN IF hits = {} THEN 0 ELSE CHOOSE i \in hits : \A j \in hits : i <= j

\* String.prototype.includes
Includes(s, p) == Len(p) = 0 \/ IndexOf(s, p) # 0

\* String.prototype.split with a one-character separator
RECURSIVE SplitOn(_, _)
SplitOn(s, c) ==
    LET i == IndexOf(s, <<c>>)
    IN IF i = 0 THEN <<s>>
       ELSE <<SubSeq(s, 1, i - 1)>> \o SplitOn(From(s, i + 1), c)

\* Array.prototype.join
RECURSIVE Join(_, _)
Join(parts, sep) ==
    IF Len(parts) = 0 THEN << >>
    ELSE IF Len(parts) = 1 THEN parts[1]
    ELSE parts[1] \o sep \o Join(Tail(parts), sep)

\* Array.prototype.flat, one level, as flatMap applies it
RECURSIVE Flatten(_)
Flatten(parts) ==
    IF Len(parts) = 0 THEN << >> ELSE parts[1] \o Flatten(Tail(parts))

\* ToIntegerOrInfinity of slice's first argument: NaN (here undefined + 1)
\* becomes 0.  A relative index below 0 counts from the end.
SliceIndex(k, len) == IF k < 0 THEN Max(len + k, 0) ELSE Min(k, len)

\* Array.prototype.slice(start, end); start and end are optional values, an
\* undefined start stands for NaN and an undefined end for the length.
Slice(arr, start, end) ==
    LET len == Len(arr)
        b == IF IsDefined(start) THEN SliceIndex(start[1], len) ELSE 0
        e == IF IsDefined(end) THEN SliceIndex(end[1], len) ELSE len
    IN IF b >= e THEN << >> ELSE SubSeq(arr, b + 1, e)

\* The longest prefix of s made of characters of cs.
RECURSIVE TakeWhile(_, _)
TakeWhile(s, cs) ==
    IF Len(s) = 0 \/ s[1] \notin cs THEN << >>
    ELSE <<s[1]>> \o TakeWhile(Tail(s), cs)

DigitValue(c) ==
    CASE c = "0" -> 0 [] c = "1" -> 1 [] c = "2" -> 2 [] c = "3" -> 3
      [] c = "4" -> 4 [] c = "5" -> 5 [] c = "6" -> 6 [] c = "7" -> 7
      [] c = "8" -> 8 [] c = "9" -> 9

\* parseInt(ds, 10) of a string of decimal digits
RECURSIVE ParseInt(_)
ParseInt(ds) ==
    IF Len(ds) = 0 THEN 0
    ELSE 10 * ParseInt(SubSeq(ds, 1, Len(ds) - 1)) + DigitValue(ds[Len(ds)])

---------------------------------------------------------------------------
(* The directive parser: transformer, lines 139-170.                       *)

FilePrefix == <<"f", "i", "l", "e", "=">>
InlineWord == <<"i", "n", "l", "i", "n", "e">>
RootDirToken == <<"<", "r", "o", "o", "t", "D", "i", "r", ">">>
GroupWord == <<"g", "r", "o", "u", "p">>

\* meta.split(/(?<!\\) /g): split at every space not preceded by a backslash.
\* cur is the token being read and prev the character before s.
RECURSIVE SplitMetaFrom(_, _, _)
SplitMetaFrom(s, cur, prev) ==
    IF Len(s) = 0 THEN <<cur>>
    ELSE IF s[1] = " " /\ prev # "\\"
         THEN <<cur>> \o SplitMetaFrom(Tail(s), << >>, s[1])
         ELSE SplitMetaFrom(Tail(s), Append(cur, s[1]), s[1])

SplitMeta(m) == SplitMetaFrom(m, << >>, "")

\* .find((meta) => meta.startsWith('file=')): the first such token, if any.
FindFileMeta(m) ==
    LET toks == SplitMeta(m)
        hits == {i \in 1..Len(toks) : StartsWith(toks[i], FilePrefix)}
    IN IF hits = {} THEN Undefined
       ELSE Some(toks[CHOOSE i \in hits : \A j \in hits : i <= j])

\* L(?<n>\d+) at the start of s: the digits (taken greedily) and the rest.
MatchLine(s) ==
    IF Len(s) >= 2 /\ s[1] = "L" /\ s[2] \in Digits
    THEN Some([digits |-> TakeWhile(Tail(s), Digits),
               rest |-> From(s, Len(TakeWhile(Tail(s), Digits)) + 2)])
    ELSE Undefined

NoRange == [from |-> Undefined, dash |-> FALSE, to |-> Undefined]

\* (?:L(?<to>\d+))?$ against r, with t the match of L\d+ at the start of r.
MatchTo(fromDigits, dash, r, t) ==
    IF Len(r) = 0
    THEN Some([from |-> Some(fromDigits), dash |-> dash, to |-> Undefined])
    ELSE IF IsDefined(t) /\ Len(t[1].rest) = 0
    THEN Some([from |-> Some(fromDigits), dash |-> dash,
               to |-> Some(t[1].digits)])
    ELSE Undefined

\* (?<dash>-)? and what follows, against the text r after the "from" digits.
MatchDash(fromDigits, r) ==
    IF Len(r) > 0 /\ r[1] = "-"
    THEN MatchTo(fromDigits, TRUE, Tail(r), MatchLine(Tail(r)))
    ELSE MatchTo(fromDigits, FALSE, r, MatchLine(r))

\* What follows the #, with f the match of L\d+ right after it.
MatchFrom(f) ==
    IF IsDefined(f) THEN MatchDash(f[1].digits, f[1].rest) ELSE Undefined

\* (?:(?:#(?:L(?<from>\d+)(?<dash>-)?)?)(?:L(?<to>\d+))?)?$ against all of s.
\* The groups are tried greedily and in order, so a line number right after
\* the # is always taken as "from".
MatchRange(s) ==
    IF Len(s) = 0 THEN Some(NoRange)
    ELSE IF s[1] # "#" THEN Undefined
    ELSE IF Len(s) = 1 THEN Some(NoRange)
    ELSE MatchFrom(MatchLine(Tail(s)))

\* The match with the shortest path: ranges[k] is the match of the range
\* against what follows the first k characters of body.  The "." of the path
\* matches no line terminator.
ShortestPath(body, ranges) ==
    LET cuts == {k \in 1..Len(body) :
                   /\ IsDefined(ranges[k])
                   /\ \A i \in 1..k : body[i] \notin LineTerminators}
        cut == CHOOSE c \in cuts : \A d \in cuts : c <= d
    IN IF cuts = {} THEN Undefined
       ELSE Some([path |-> SubSeq(body, 1, cut), from |-> ranges[cut][1].from,
                  dash |-> ranges[cut][1].dash, to |-> ranges[cut][1].to])

MatchPath(body) ==
    ShortestPath(body, [k \in 1..Len(body) |-> MatchRange(From(body, k + 1))])

\* /^file=(?<path>.+?)(...)?$/.exec(fileMeta): the path is matched lazily, so
\* it is the shortest non-empty prefix after which the range matches.
ExecFileMeta(fileMeta) == MatchPath(From(fileMeta, Len(FilePrefix) + 1))

\* (node.meta || '').includes("inline") ? "inline" : "classic"
ModeOf(m) == IF Includes(m, InlineWord) THEN "inline" ELSE "classic"

\* res.groups.from ? parseInt(res.groups.from, 10) : undefined
LineOf(digits) ==
    IF IsDefined(digits) THEN Some(ParseInt(digits[1])) ELSE Undefined

\* Lines 156-170, with res the result of exec.
DirectiveOf(m, fileMeta, res) ==
    IF ~IsDefined(res)
    THEN [kind |-> "parseError", fileMeta |-> fileMeta]
    ELSE [kind |-> "directive",
          filePath |-> res[1].path,
          fromLine |-> LineOf(res[1].from),
          hasDash |-> res[1].dash \/ ~IsDefined(res[1].from),
          toLine |-> LineOf(res[1].to),
          mode |-> ModeOf(m)]

\* Lines 144-170, with fileMeta the token found.
ParseFileMeta(m, fileMeta) ==
    IF ~IsDefined(fileMeta) THEN [kind |-> "skip"]
    ELSE DirectiveOf(m, fileMeta[1], ExecFileMeta(fileMeta[1]))

\* Lines 139-170 for one node: "skip" when no token starts with file=,
\* "parseError" when the regular expression fails, else the directive.
ParseMeta(m) == ParseFileMeta(m, FindFileMeta(m))

---------------------------------------------------------------------------
(* Group ("inline") extraction: lines 25-92.                               *)

\* getGroup: /group (?<group>[\w\-_]*)/.exec(input)?.groups?.group.  The match
\* is the leftmost "group " and the name the longest run of name characters
\* after it, which may be empty.
getGroup(input) ==
    LET i == IndexOf(input, GroupWord \o <<" ">>)
    IN IF i = 0 THEN Undefined
       ELSE Some(TakeWhile(From(input, i + Len(GroupWord) + 1), GroupNameChars))

\* if (line.includes("group")) { const group = getGroup(line); ... }: the
\* group a line names, if any (lines 36-38 and 63-65).
GroupOf(line) ==
    IF Includes(line, GroupWord) THEN getGroup(line) ELSE Undefined

\* The Element of a template line naming group g (the callback of
\* extractElements).
ElementWith(line, g) ==
    IF IsDefined(g) THEN [type |-> "group", group |-> g[1]]
    ELSE [type |-> "text", text |-> line]

\* extractElements: input.split(EOL).map(...)
ElementsOf(ls) == [i \in 1..Len(ls) |-> ElementWith(ls[i], GroupOf(ls[i]))]
extractElements(input) == ElementsOf(SplitOn(input, EOL))

\* The 0-based indexes, ascending, of the lines from i on that name the
\* group; gs[i] is the group line i names.
RECURSIVE PositionsFrom(_, _, _)
PositionsFrom(gs, name, i) ==
    IF i > Len(gs) THEN << >>
    ELSE (IF gs[i] = Some(name) THEN <<i - 1>> ELSE << >>)
         \o PositionsFrom(gs, name, i + 1)

\* The members a plain object inherits from Object.prototype, each with its
\* length property: the arity of the function, and none for __proto__, whose
\* getter returns Object.prototype itself.
ObjectPrototype ==
    (<<"c", "o", "n", "s", "t", "r", "u", "c", "t", "o", "r">>
       :> Some(1))
    @@ (<<"_", "_", "d", "e", "f", "i", "n", "e", "G", "e", "t", "t", "e", "r", "_", "_">>
       :> Some(2))
    @@ (<<"_", "_", "d", "e", "f", "i", "n", "e", "S", "e", "t", "t", "e", "r", "_", "_">>
       :> Some(2))
    @@ (<<"h", "a", "s", "O", "w", "n", "P", "r", "o", "p", "e", "r", "t", "y">>
       :> Some(1))
    @@ (<<"_", "_", "l", "o", "o", "k", "u", "p", "G", "e", "t", "t", "e", "r", "_", "_">>
       :> Some(1))
    @@ (<<"_", "_", "l", "o", "o", "k", "u", "p", "S", "e", "t", "t", "e", "r", "_", "_">>
       :> Some(1))
    @@ (<<"i", "s", "P", "r", "o", "t", "o", "t", "y", "p", "e", "O", "f">>
       :> Some(1))
    @@ (<<"p", "r", "o", "p", "e", "r", "t", "y", "I", "s", "E", "n", "u", "m", "e", "r", "a", "b", "l", "e">>
       :> Some(1))
    @@ (<<"t", "o", "S", "t", "r", "i", "n", "g">>
       :> Some(0))
    @@ (<<"v", "a", "l", "u", "e", "O", "f">>
       :> Some(0))
    @@ (<<"t", "o", "L", "o", "c", "a", "l", "e", "S", "t", "r", "i", "n", "g">>
       :> Some(0))
    @@ (<<"_", "_", "p", "r", "o", "t", "o", "_", "_">>
       :> Undefined)

\* (map[group] ??= []).push(index) for the group a line names: an inherited
\* member is not nullish, so nothing is assigned, and it has no push.
PushThrows(g) == IsDefined(g) /\ g[1] \in DOMAIN ObjectPrototype

\* The own keys of the map: a key for each name found, holding the positions
\* pushed for it in file order.
MapOf(gs) ==
    [n \in {gs[i][1] : i \in {j \in 1..Len(gs) : IsDefined(gs[j])}} |->
       PositionsFrom(gs, n, 1)]

\* The map extractGroups builds, lines 61-70, or the TypeError of the push.
GroupsOf(gs) ==
    IF \E i \in 1..Len(gs) : PushThrows(gs[i])
    THEN [threw |-> TRUE, map |-> << >>]
    ELSE [threw |-> FALSE, map |-> MapOf(gs)]

extractGroups(lines) == GroupsOf([i \in 1..Len(lines) |-> GroupOf(lines[i])])

\* Array.prototype.shift: the element removed (undefined when empty) and
\* what is left.
Shift(array) ==
    IF Len(array) = 0 THEN [value |-> Undefined, left |-> << >>]
    ELSE [value |-> Some(array[1]), left |-> Tail(array)]

\* The slice start array.shift()! + 1: undefined + 1 is NaN.
PlusOne(v) == IF IsDefined(v) THEN Some(v[1] + 1) ELSE Undefined

\* content.slice(array.shift()! + 1, array.shift()) with first and second
\* the results of the two shifts, and whether console.error was called.
SliceBetween(lines, array, first, second) ==
    [segment |-> Slice(lines, PlusOne(first.value), second.value),
     shifted |-> first.value \o second.value,
     left |-> second.left,
     logged |-> Len(array) < 2]

\* The flatMap callback of transformDoc for a group element whose array
\* exists: the lines it returns, the positions it shifted, the array left
\* and whether it called console.error.
GroupStep(lines, array) ==
    SliceBetween(lines, array, Shift(array), Shift(Shift(array).left))

\* groups[el.group] of a name that is no own key of the map is the member
\* inherited from Object.prototype, if any: whether line 82 holds for it.
InheritedLogs(name) ==
    /\ name \in DOMAIN ObjectPrototype
    /\ IsDefined(ObjectPrototype[name])
    /\ ObjectPrototype[name][1] < 2

\* transformDoc's flatMap, element k onwards; groups is the map's own keys.
\* groups[el.group] of a name with no marker is undefined or an inherited
\* member, and array.shift() then throws a TypeError, which ends
\* transformDoc.
RECURSIVE Replay(_, _, _, _, _)
RECURSIVE ReplayGroup(_, _, _, _, _, _)
Replay(lines, elements, k, groups, acc) ==
    IF k > Len(elements) THEN acc
    ELSE IF elements[k].type = "text"
    THEN Replay(lines, elements, k + 1, groups,
                [acc EXCEPT !.segments = Append(@, <<elements[k].text>>),
                            !.shifted = Append(@, << >>)])
    ELSE IF elements[k].group \notin DOMAIN groups
    THEN [acc EXCEPT !.threw = TRUE,
                     !.errors = IF InheritedLogs(elements[k].group)
                                THEN Append(@, elements[k].group) ELSE @]
    ELSE ReplayGroup(lines, elements, k, groups, acc,
                     GroupStep(lines, groups[elements[k].group]))

\* Lines 86-89 for element k, with step what the callback computed:
\* groups[el.group] = array; return group.
ReplayGroup(lines, elements, k, groups, acc, step) ==
    Replay(lines, elements, k + 1,
           [groups EXCEPT ![elements[k].group] = step.left],
           [acc EXCEPT !.segments = Append(@, step.segment),
                       !.shifted = Append(@, step.shifted),
                       !.errors = IF step.logged
                                  THEN Append(@, elements[k].group) ELSE @])

\* .join("\n") of the flattened arrays, unless the callback threw.
Joined(r) ==
    [threw |-> r.threw,
     value |-> IF r.threw THEN << >> ELSE Join(Flatten(r.segments), <<"\n">>),
     segments |-> r.segments,
     shifted |-> r.shifted,
     errors |-> r.errors]

\* transformDoc: the string returned, or threw; segments are the arrays the
\* callback returned, shifted the marker positions each call removed, and
\* errors the group names given to console.error.
NothingReplayed ==
    [threw |-> FALSE, segments |-> << >>, shifted |-> << >>, errors |-> << >>]

\* Lines 77-91 with g what extractGroups gave at line 76.
ReplayWith(lines, elements, g) ==
    IF g.threw THEN [NothingReplayed EXCEPT !.threw = TRUE]
    ELSE Replay(lines, elements, 1, g.map, NothingReplayed)

transformDoc(lines, elements) ==
    Joined(ReplayWith(lines, elements, extractGroups(lines)))

---------------------------------------------------------------------------
(* Classic extraction and extractLines: lines 94-121.                      *)

\* const start = fromLine || 1
StartOf(fromLine) ==
    IF IsDefined(fromLine) /\ fromLine[1] # 0 THEN fromLine[1] ELSE 1

\* An end that drops the trailing empty line whatever the option says.
EndOfAlwaysTrims(lines, start, hasDash, toLine, preserve) ==
    IF ~hasDash THEN start
    ELSE IF IsDefined(toLine) /\ toLine[1] # 0 THEN toLine[1]
    ELSE IF lines[Len(lines)] = << >> THEN Len(lines) - 1
    ELSE Len(lines)

\* The end of the slice, lines 106-115.
EndOf(lines, start, hasDash, toLine, preserve) ==
    IF ~hasDash THEN start
    ELSE IF IsDefined(toLine) /\ toLine[1] # 0 THEN toLine[1]
    ELSE IF lines[Len(lines)] = << >> /\ ~preserve THEN Len(lines) - 1
    ELSE Len(lines)

\* A slice that takes the 1-based start for a 0-based index.
classicLinesFromStart(lines, fromLine, hasDash, toLine, preserve) ==
    Join(Slice(lines, Some(StartOf(fromLine)),
               Some(EndOf(lines, StartOf(fromLine), hasDash, toLine, preserve))),
         <<"\n">>)

\* lines.slice(start - 1, end).join('\n')
classicLines(lines, fromLine, hasDash, toLine, preserve) ==
    Join(Slice(lines, Some(StartOf(fromLine) - 1),
               Some(EndOf(lines, StartOf(fromLine), hasDash, toLine, preserve))),
         <<"\n">>)

\* extractLines with lines the split content.
ExtractFrom(mode, lines, fromLine, hasDash, toLine, old, preserve) ==
    IF mode = "classic"
    THEN [threw |-> FALSE,
          value |-> classicLines(lines, fromLine, hasDash, toLine, preserve),
          segments |-> << >>, shifted |-> << >>, errors |-> << >>]
    ELSE transformDoc(lines, extractElements(old))

extractLines(mode, text, fromLine, hasDash, toLine, old, preserve) ==
    ExtractFrom(mode, SplitOn(text, EOL), fromLine, hasDash, toLine, old,
                preserve)

---------------------------------------------------------------------------
(* Inputs of the extraction specifications.                                *)

\* All sequences over a set, up to a length.
SeqsUpTo(S, n) == UNION {[1..k -> S] : k \in 0..n}

DigitChar(d) ==
    CASE d = 0 -> "0" [] d = 1 -> "1" [] d = 2 -> "2" [] d = 3 -> "3"
      [] d = 4 -> "4" [] d = 5 -> "5" [] d = 6 -> "6" [] d = 7 -> "7"
      [] d = 8 -> "8" [] d = 9 -> "9"

\* The decimal digits a directive author writes for line number n.
RECURSIVE Decimal(_)
Decimal(n) ==
    IF n < 10 THEN <<DigitChar(n)>>
    ELSE Decimal(n \div 10) \o <<DigitChar(n % 10)>>

\* Files given to classic extraction: every text over these characters.
ContentChars == {"a", "b", EOL, CR}
ClassicContents == SeqsUpTo(ContentChars, MaxContentLen)

\* Line numbers written in directives: 0, the lines a file of the model can
\* have, and a two-digit number beyond every file.
LineNumbers == 0..MaxLineNo \cup {12}

\* The forms of the range after the path: none, "#", "#Ln", "#Ln-",
\* "#Ln-Lm" and "#LnLm".
RangeTexts ==
    {<< >>, <<"#">>}
    \cup {<<"#", "L">> \o Decimal(n) : n \in LineNumbers}
    \cup {<<"#", "L">> \o Decimal(n) \o <<"-">> : n \in LineNumbers}
    \cup {<<"#", "L">> \o Decimal(n) \o <<"-", "L">> \o Decimal(m) :
            n \in LineNumbers, m \in LineNumbers}
    \cup {<<"#", "L">> \o Decimal(n) \o <<"L">> \o Decimal(m) :
            n \in {1, 2}, m \in {1, 2}}

\* Annotations of classic placeholders, one without a file= token, one
\* whose file= token has no path and one with a line break in the path.
ClassicMeta(range) == <<"j", "s", " ">> \o FilePrefix \o <<"f">> \o range
ClassicMetas ==
    {ClassicMeta(r) : r \in RangeTexts}
    \cup {<<"j", "s">>, FilePrefix, ClassicMeta(<<EOL, "#", "L", "1">>)}

\* Lines of the files and templates given to group extraction.
MarkerX == <<"#", " ">> \o GroupWord \o <<" ", "x", " ", "#">>
MarkerY == GroupWord \o <<" ", "y">>
RefX == <<"/", "/", " ">> \o GroupWord \o <<" ", "x">>
MarkerC == GroupWord \o <<" ">> \o <<"c", "o", "n", "s", "t", "r", "u", "c", "t", "o", "r">>
FileLinePool == {<<"1">>, MarkerX, MarkerY, MarkerC}
TemplateLinePool == {<<"a">>, RefX, MarkerY, MarkerC}
GroupMeta == FilePrefix \o <<"f", " ">> \o InlineWord

GroupContents ==
    {Join(ls, <<EOL>>) : ls \in SeqsUpTo(FileLinePool, MaxFileLines)}
GroupTemplates ==
    {Join(ls, <<EOL>>) : ls \in SeqsUpTo(TemplateLinePool, MaxTemplate)}

\* The variables of the pass while only extraction is modelled.
PassIdle ==
    /\ tree = << >>
    /\ options = [async |-> FALSE, allowImportingFromOutside |-> FALSE,
                  removeRedundantIndentations |-> FALSE]
    /\ dirname = << >>
    /\ cursor = 1
    /\ promises = << >>
    /\ status = "idle"
    /\ error = Undefined
    /\ reads = {}
    /\ written = {}
    /\ modes = << >>
    /\ document = << >>

InitClassic ==
    /\ meta \in ClassicMetas
    /\ content \in ClassicContents
    /\ oldValue = << >>
    /\ preserveTrailingNewline \in BOOLEAN
    /\ pc = "parse"
    /\ directive = Undefined
    /\ result = Undefined
    /\ PassIdle

InitGroup ==
    /\ meta = GroupMeta
    /\ content \in GroupContents
    /\ oldValue \in GroupTemplates
    /\ preserveTrailingNewline = FALSE
    /\ pc = "parse"
    /\ directive = Undefined
    /\ result = Undefined
    /\ PassIdle

---------------------------------------------------------------------------
(* One placeholder: the directive is parsed, then extractLines is called.  *)

\* Where the placeholder goes with what lines 139-170 computed.
ParseTo(d) ==
    /\ directive' = Some(d)
    /\ pc' = CASE d.kind = "skip" -> "skipped"
               [] d.kind = "parseError" -> "error"
               [] OTHER -> "extract"

\* Lines 139-170: no file= token skips the node, a failed match throws.
Parse ==
    /\ pc = "parse"
    /\ ParseTo(ParseMeta(meta))
    /\ UNCHANGED <<meta, content, oldValue, preserveTrailingNewline, result>>
    /\ UNCHANGED passVars

\* What extractLines returned; a TypeError thrown by transformDoc leaves
\* node.value as it was.
ExtractTo(r) ==
    /\ result' = Some(r)
    /\ pc' = IF r.threw THEN "error" ELSE "done"

\* Lines 213-221: extractLines on the file's text.
Extract ==
    /\ pc = "extract"
    /\ ExtractTo(extractLines(directive[1].mode, content,
                              directive[1].fromLine, directive[1].hasDash,
                              directive[1].toLine, oldValue,
                              preserveTrailingNewline))
    /\ UNCHANGED <<meta, content, oldValue, preserveTrailingNewline, directive>>
    /\ UNCHANGED passVars

NextExtract == Parse \/ Extract

SpecClassic == InitClassic /\ [][NextExtract]_vars
SpecGroup == InitGroup /\ [][NextExtract]_vars

---------------------------------------------------------------------------
(* Paths: node:path on POSIX, and the files the model's file system holds. *)

\* The segments of a path after normalisation: empty and "." segments are
\* dropped and ".." removes the segment before it (none at the root).
RECURSIVE NormalSegments(_, _)
NormalSegments(segs, acc) ==
    IF Len(segs) = 0 THEN acc
    ELSE LET sg == segs[1]
         IN IF sg = << >> \/ sg = <<".">>
            THEN NormalSegments(Tail(segs), acc)
            ELSE IF sg = <<".", ".">>
            THEN NormalSegments(Tail(segs),
                                IF Len(acc) = 0 THEN acc
                                ELSE SubSeq(acc, 1, Len(acc) - 1))
            ELSE NormalSegments(Tail(segs), Append(acc, sg))

SegmentsOf(abs) == NormalSegments(SplitOn(abs, "/"), << >>)

\* path.isAbsolute
IsAbsolute(p) == Len(p) > 0 /\ p[1] = "/"

\* path.resolve(base, p) for an absolute base
Resolve(base, p) ==
    <<"/">> \o Join(SegmentsOf(IF IsAbsolute(p) THEN p ELSE base \o <<"/">> \o p),
                    <<"/">>)

\* The number of leading segments two paths share.
RECURSIVE CommonPrefix(_, _)
CommonPrefix(a, b) ==
    IF Len(a) = 0 \/ Len(b) = 0 \/ a[1] # b[1] THEN 0
    ELSE 1 + CommonPrefix(Tail(a), Tail(b))

\* path.relative for the segments f of from and t of to, c of them shared:
\* one ".." for each segment of from that is not shared, then the segments
\* of to that are not shared.
RelativeJoin(f, t, c) ==
    Join([i \in 1..(Len(f) - c) |-> <<".", ".">>] \o SubSeq(t, c + 1, Len(t)),
         <<"/">>)

RelativeSegments(f, t) == RelativeJoin(f, t, CommonPrefix(f, t))

\* path.relative(from, to)
Relative(from, to) == RelativeSegments(SegmentsOf(from), SegmentsOf(to))

\* The text String.prototype.replace puts for a match of a pattern without
\* capture groups, given the replacement string repl: $$ is a dollar sign,
\* $& the match and $' the text after it; any other dollar sign stands for
\* itself.  (A dollar sign before a grave accent gives the text before the
\* match; the grave accent is not a character of the model's texts.)
RECURSIVE Substitute(_, _, _)
Substitute(repl, matched, after) ==
    IF Len(repl) = 0 THEN << >>
    ELSE IF repl[1] # "$" \/ Len(repl) = 1
    THEN <<repl[1]>> \o Substitute(Tail(repl), matched, after)
    ELSE IF repl[2] = "$"
    THEN <<"$">> \o Substitute(From(repl, 3), matched, after)
    ELSE IF repl[2] = "&"
    THEN matched \o Substitute(From(repl, 3), matched, after)
    ELSE IF repl[2] = "'"
    THEN after \o Substitute(From(repl, 3), matched, after)
    ELSE <<"$">> \o Substitute(Tail(repl), matched, after)

\* filePath.replace(/^<rootDir>/, rootDir)
ReplaceRootDir(filePath, root) ==
    IF StartsWith(filePath, RootDirToken)
    THEN Substitute(root, RootDirToken, From(filePath, Len(RootDirToken) + 1))
         \o From(filePath, Len(RootDirToken) + 1)
    ELSE filePath

\* .replace(/\\ /g, ' ')
RECURSIVE UnescapeSpaces(_)
UnescapeSpaces(p) ==
    IF Len(p) = 0 THEN << >>
    ELSE IF Len(p) >= 2 /\ p[1] = "\\" /\ p[2] = " "
         THEN <<" ">> \o UnescapeSpaces(From(p, 3))
         ELSE <<p[1]>> \o UnescapeSpaces(Tail(p))

\* options.rootDir of the model's passes.
rootDir == <<"/", "r">>

\* fileAbsPath, lines 165-168
FileAbsPath(dir, filePath) ==
    Resolve(dir, UnescapeSpaces(ReplaceRootDir(filePath, rootDir)))

\* relativePathFromRootDir.startsWith(`..${path.sep}`) ||
\* path.isAbsolute(relativePathFromRootDir)
Escapes(relativePathFromRootDir) ==
    \/ StartsWith(relativePathFromRootDir, <<".", ".", "/">>)
    \/ IsAbsolute(relativePathFromRootDir)

\* The condition of the throw at lines 174-178 (rootDir is never empty).
OutsideRoot(abs) == Escapes(Relative(rootDir, abs))

\* The files of the model's file system.  /r/a is the file of the spec's
\* group scenario, /s lies outside the root and has indented lines,
\* /r/inline is a file whose name holds the mode literal.
FileA ==
    Join(<<<<"1">>, MarkerX, <<"2">>, MarkerX, <<"3">>>>, <<EOL>>) \o <<EOL>>
FileS == <<" ", " ", "s", EOL, EOL, " ", "e", EOL>>
FileInline == <<"i", EOL, "n">>
DocDir == <<"/", "r", "/", "d">>
Directories == {<<"/">>, rootDir, DocDir}
Files == {<<"/", "r", "/", "a">>, <<"/", "s">>, <<"/", "r", "/">> \o InlineWord}

\* A path that goes through a regular file.
BelowFile(abs) == \E f \in Files : StartsWith(abs, f \o <<"/">>)

\* What fs.readFile and fs.readFileSync give for a path: err or data.
ReadFile(abs) ==
    CASE abs = <<"/", "r", "/", "a">> -> [err |-> Undefined, data |-> FileA]
      [] abs = <<"/", "s">> -> [err |-> Undefined, data |-> FileS]
      [] abs = <<"/", "r", "/">> \o InlineWord ->
             [err |-> Undefined, data |-> FileInline]
      [] abs \in Directories -> [err |-> Some("EISDIR"), data |-> << >>]
      [] BelowFile(abs) -> [err |-> Some("ENOTDIR"), data |-> << >>]
      [] OTHER -> [err |-> Some("ENOENT"), data |-> << >>]

---------------------------------------------------------------------------
(* The pass: transformer, lines 130-231.  file.dirname is set (line 148)    *)
(* and rootDir is absolute (line 126).                                     *)

\* stripIndent of the strip-indent package, called at lines 204 and 223:
\* the smallest indentation among the lines that hold a character other
\* than white space is removed from every line that starts with that much.
\* The package is no part of this repository's source; the operators below
\* follow its documented behaviour.
IndentChars == {" ", "\t"}

\* The characters \S does not match, among those a text of the model can
\* hold (the vertical tab and the Unicode spaces are the others).
WhiteSpace == IndentChars \cup LineTerminators \cup {"\f"}

\* The positions ^ matches with the m flag.
LineStarts(s) == {p \in 1..Len(s) : p = 1 \/ s[p - 1] \in LineTerminators}

IndentAt(s, p) == Len(TakeWhile(From(s, p), IndentChars))

\* The lengths of the matches of /^[ \t]*(?=\S)/gm.
IndentsOf(s, starts) ==
    {IndentAt(s, p) : p \in {q \in starts :
                               /\ q + IndentAt(s, q) <= Len(s)
                               /\ s[q + IndentAt(s, q)] \notin WhiteSpace}}

\* min-indent: 0 when no line matches.
MinOf(ns) == IF ns = {} THEN 0 ELSE CHOOSE n \in ns : \A m \in ns : n <= m
minIndent(s) == MinOf(IndentsOf(s, LineStarts(s)))

\* s without the characters at the positions of drop, from position i on.
RECURSIVE DropAt(_, _, _)
DropAt(s, drop, i) ==
    IF i > Len(s) THEN << >>
    ELSE (IF i \in drop THEN << >> ELSE <<s[i]>>) \o DropAt(s, drop, i + 1)

\* string.replace(new RegExp(`^[ \\t]{${indent}}`, 'gm'), '')
StripBy(s, indent, starts) ==
    IF indent = 0 THEN s
    ELSE DropAt(s, UNION {p..(p + indent - 1) :
                            p \in {q \in starts : IndentAt(s, q) >= indent}}, 1)

StripIndentBy(s, indent) == StripBy(s, indent, LineStarts(s))
stripIndent(s) == StripIndentBy(s, minIndent(s))

\* Lines 203-205 and 222-224: the value extractLines returned, stripped of
\* its indentation when the option asks for it.
Stored(value) ==
    IF options.removeRedundantIndentations THEN stripIndent(value) ELSE value

\* The code nodes a document of the model is made of.
NodePool ==
    { [meta |-> <<"j", "s">>, value |-> <<"x">>],
      [meta |-> FilePrefix \o <<".", ".", "/", "a", "#", "L", "3">>,
       value |-> << >>],
      [meta |-> <<"t", "s", " ">> \o FilePrefix \o RootDirToken \o <<"/", "a">>,
       value |-> <<"x">>],
      [meta |-> FilePrefix \o <<".", ".", "/", "a", " ">> \o InlineWord,
       value |-> Join(<<<<"a">>, MarkerX, MarkerX, <<"b">>>>, <<EOL>>)],
      [meta |-> FilePrefix \o <<".", ".", "/">> \o InlineWord,
       value |-> << >>],
      [meta |-> FilePrefix \o <<".", ".", "/", ".", ".", "/", "s">>,
       value |-> << >>],
      [meta |-> FilePrefix \o <<".", ".", "/", ".", ".">>,
       value |-> << >>],
      [meta |-> FilePrefix \o <<"m">>, value |-> << >>],
      [meta |-> FilePrefix \o <<".", ".", "/", "a", "/", "x">>, value |-> << >>],
      [meta |-> FilePrefix, value |-> << >>],
      [meta |-> FilePrefix \o <<".", ".", "/", "a", " ">> \o InlineWord,
       value |-> MarkerY] }

\* The variables of one extraction while the pass is modelled.
ExtractIdle ==
    /\ meta = << >>
    /\ content = << >>
    /\ oldValue = << >>
    /\ pc = "idle"
    /\ directive = Undefined
    /\ result = Undefined

InitPass ==
    /\ document \in SeqsUpTo(NodePool, MaxNodes)
    /\ tree = document
    /\ options \in [async : BOOLEAN, allowImportingFromOutside : BOOLEAN,
                    removeRedundantIndentations : BOOLEAN]
    /\ preserveTrailingNewline \in BOOLEAN
    /\ dirname = DocDir
    /\ cursor = 1
    /\ promises = << >>
    /\ status = "running"
    /\ error = Undefined
    /\ reads = {}
    /\ written = {}
    /\ modes = << >>
    /\ ExtractIdle

\* A callback that assigns to the node the loop ended at (a loop variable
\* shared by the iterations).
CallbackNodeShared(issuing, last) == last

\* The node a readFile callback assigns to: the node of the iteration that
\* issued the read (const [node] of codes), whatever node the loop ended at.
CallbackNode(issuing, last) == issuing

\* extractLines has returned r: a TypeError out of transformDoc, or the new
\* node.value.
Extracted(r) ==
    IF r.threw THEN [kind |-> "TypeError", value |-> << >>]
    ELSE [kind |-> "ok", value |-> r.value]

\* The read of lines 188 and 211 has given file: a read error, or the
\* outcome of extractLines on the data.
Imported(file, d, old, preserve) ==
    IF IsDefined(file.err)
    THEN [kind |-> "read", code |-> file.err[1], value |-> << >>]
    ELSE Extracted(extractLines(d.mode, file.data, d.fromLine, d.hasDash,
                                d.toLine, old, preserve))

Import(abs, d, old, preserve) == Imported(ReadFile(abs), d, old, preserve)

\* A callback without the return after reject(err).
AssignsAlways(outcome) == TRUE

\* Whether node.value is assigned: not after reject(err); return (189-192),
\* nor when readFileSync or extractLines has thrown (211-213).
Assigns(outcome) == outcome.kind = "ok"

\* Lines 211-224: the synchronous read has given out.  A throw leaves the
\* loop and the transformer.
VisitSync(abs, out) ==
    /\ tree' = IF Assigns(out)
               THEN [tree EXCEPT ![cursor].value = Stored(out.value)]
               ELSE tree
    /\ written' = IF Assigns(out) THEN written \cup {cursor} ELSE written
    /\ status' = IF out.kind = "ok" THEN status ELSE "failed"
    /\ error' = IF out.kind = "ok" THEN error
                ELSE Some([kind |-> out.kind, node |-> cursor, path |-> abs])
    /\ cursor' = IF out.kind = "ok" THEN cursor + 1 ELSE cursor
    /\ UNCHANGED promises

\* Lines 186-209: the read is issued and its promise pushed.
VisitAsync(d, abs) ==
    /\ promises' = Append(promises, [node |-> cursor, path |-> abs, d |-> d,
                                     state |-> "pending"])
    /\ cursor' = cursor + 1
    /\ UNCHANGED <<tree, status, error, written>>

\* Lines 170-225 for directive d, whose path resolved to abs.
VisitResolved(d, abs) ==
    /\ modes' = Append(modes, [node |-> cursor, mode |-> d.mode])
    /\ IF ~options.allowImportingFromOutside /\ OutsideRoot(abs)
       THEN /\ status' = "failed"
            /\ error' = Some([kind |-> "outside", node |-> cursor,
                              path |-> abs, root |-> rootDir])
            /\ UNCHANGED <<tree, promises, cursor, reads, written>>
       ELSE /\ reads' = reads \cup {abs}
            /\ IF options.async
               THEN VisitAsync(d, abs)
               ELSE VisitSync(abs, Import(abs, d, tree[cursor].value,
                                          preserveTrailingNewline))

\* Lines 139-225 for the node at cursor, with d what lines 139-164 computed.
VisitParsed(d) ==
    CASE d.kind = "skip" ->
           /\ cursor' = cursor + 1
           /\ UNCHANGED <<tree, promises, status, error, reads, written, modes>>
      [] d.kind = "parseError" ->
           /\ status' = "failed"
           /\ error' = Some([kind |-> "parse", node |-> cursor,
                             fileMeta |-> d.fileMeta])
           /\ UNCHANGED <<tree, promises, cursor, reads, written, modes>>
      [] OTHER -> VisitResolved(d, FileAbsPath(dirname, d.filePath))

\* One iteration of the for loop of line 138, for the node at cursor.  With
\* options.async the read is issued and its promise pushed; otherwise the
\* file is read and node.value assigned before the next iteration.
VisitNode ==
    /\ status = "running"
    /\ cursor <= Len(tree)
    /\ VisitParsed(ParseMeta(tree[cursor].meta))
    /\ UNCHANGED <<options, dirname, document, preserveTrailingNewline>>
    /\ UNCHANGED extractVars

\* Lines 228-230, after the loop: Promise.all(promises) when any promise was
\* pushed, else undefined.
Return ==
    /\ status = "running"
    /\ cursor > Len(tree)
    /\ status' = IF Len(promises) > 0 THEN "awaiting" ELSE "done"
    /\ UNCHANGED <<tree, options, dirname, cursor, promises, error, reads,
                   written, modes, document, preserveTrailingNewline>>
    /\ UNCHANGED extractVars

\* The state of promise k once its callback has run with outcome out.
Settle(k, out) ==
    [promises EXCEPT ![k].state = CASE out.kind = "ok" -> "resolved"
                                    [] out.kind = "read" -> "rejected"
                                    [] OTHER -> "pending"]

\* Whether line 229 was reached: Promise.all has taken the promises, so a
\* rejection of any of them is handled.  When the loop has thrown instead,
\* nothing handles the promises already pushed.
Handled == cursor > Len(tree)

\* Lines 189-206 for promise k, whose callback assigns to node n and has
\* computed out; settled is what the promises become.  The rejection of a
\* promise nothing handles is raised by the runtime as an uncaught
\* exception, which ends the process as a TypeError thrown in the callback
\* does.
CallbackTo(k, n, out, settled) ==
    /\ promises' = settled
    /\ tree' = IF Assigns(out)
               THEN [tree EXCEPT ![n].value = Stored(out.value)]
               ELSE tree
    /\ written' = IF Assigns(out) THEN written \cup {n} ELSE written
    /\ status' =
         CASE out.kind = "TypeError" -> "crashed"
           [] out.kind = "read" /\ ~Handled -> "crashed"
           [] out.kind = "read" /\ status = "awaiting" -> "failed"
           [] out.kind = "ok" /\ status = "awaiting"
                /\ \A j \in 1..Len(settled) : settled[j].state = "resolved"
                -> "done"
           [] OTHER -> status
    /\ error' = IF out.kind = "read" /\ status = "awaiting"
                THEN Some([kind |-> "read", node |-> promises[k].node,
                           path |-> promises[k].path])
                ELSE error

CallbackOf(k, n, out) == CallbackTo(k, n, out, Settle(k, out))

CallbackFor(k, n) ==
    CallbackOf(k, n, Import(promises[k].path, promises[k].d, tree[n].value,
                            preserveTrailingNewline))

\* The callback of fs.readFile for promise k, lines 188-207.  Callbacks run
\* once the transformer has returned or thrown, in any order.  An error
\* rejects the promise, and the first rejection rejects Promise.all; a
\* TypeError out of extractLines is thrown inside the callback, where no
\* promise catches it.  No callback runs once the process has ended.
ReadCallback(k) ==
    /\ status \in {"awaiting", "failed"}
    /\ promises[k].state = "pending"
    /\ CallbackFor(k, CallbackNode(promises[k].node, Len(tree)))
    /\ UNCHANGED <<options, dirname, cursor, reads, modes, document,
                   preserveTrailingNewline>>
    /\ UNCHANGED extractVars

Callback == \E k \in 1..Len(promises) : ReadCallback(k)

NextPass == VisitNode \/ Return \/ Callback

SpecPass == InitPass /\ [][NextPass]_vars

---------------------------------------------------------------------------
(* Classic extraction: claims C2, C3 and C10, under SpecClassic.  The      *)
(* lines of the file are told by the positions of its line terminators,    *)
(* not by the model's split.                                               *)

\* C2 as stated: classic extraction with from=n and no dash, n within
\* [1, len(F)], returns exactly line n of F; with from=n, a dash and to=m,
\* where 1 <= n <= m <= len(F), it returns exactly the m-n+1 lines n..m of F
\* joined with "\n", whatever terminator F was written with: a line of F
\* ends at "\n" or at "\r\n" and holds neither.  Stated of the files in
\* which every carriage return is part of a "\r\n".
ClosedRangeReturnsLines ==
    LET breaks == {i \in 1..Len(content) : content[i] = EOL}
        count == Cardinality(breaks) + 1
        BreakAt(k) == IF k = 0 THEN 0
                      ELSE IF k = count THEN Len(content) + 1
                      ELSE CHOOSE i \in breaks :
                             Cardinality({j \in breaks : j <= i}) = k
        NotCR(c) == c # CR
        Line(k) == SelectSeq(SubSeq(content, BreakAt(k - 1) + 1,
                                    BreakAt(k) - 1), NotCR)
        terminated == \A i \in 1..Len(content) :
                         content[i] = CR
                         => (i < Len(content) /\ content[i + 1] = EOL)
        out == result[1].value
    IN (pc = "done" /\ terminated) =>
         /\ \A n \in 1..count :
              meta = ClassicMeta(<<"#", "L">> \o Decimal(n)) => out = Line(n)
         /\ \A n \in 1..count : \A m \in n..count :
              meta = ClassicMeta(<<"#", "L">> \o Decimal(n) \o <<"-", "L">>
                                 \o Decimal(m))
              => out = Join([k \in 1..(m - n + 1) |-> Line(n + k - 1)],
                            <<"\n">>)

\* C2, amended: the lines of F are the pieces between its "\n" characters,
\* a "\r" before a "\n" staying in its line.  With from=n >= 1 and no dash
\* the result is line n, empty when F has fewer than n lines; with from=n,
\* a dash and to=m, 1 <= n <= m, it is the lines n..m that F has, joined with
\* "\n": exactly m-n+1 lines when F has at least m.
ClosedRangeReturnsSplitLines ==
    LET breaks == {i \in 1..Len(content) : content[i] = EOL}
        count == Cardinality(breaks) + 1
        BreakAt(k) == IF k = 0 THEN 0
                      ELSE IF k = count THEN Len(content) + 1
                      ELSE CHOOSE i \in breaks :
                             Cardinality({j \in breaks : j <= i}) = k
        Line(k) == SubSeq(content, BreakAt(k - 1) + 1, BreakAt(k) - 1)
        Upto(m) == IF m < count THEN m ELSE count
        Lines(n, m) == IF n > Upto(m) THEN << >>
                       ELSE Join([k \in 1..(Upto(m) - n + 1) |-> Line(n + k - 1)],
                                 <<"\n">>)
        out == result[1].value
    IN pc = "done" =>
         /\ \A n \in LineNumbers \ {0} :
              meta = ClassicMeta(<<"#", "L">> \o Decimal(n))
              => out = Lines(n, n)
         /\ \A n \in LineNumbers \ {0} : \A m \in LineNumbers \ {0} :
              (n <= m /\ meta = ClassicMeta(<<"#", "L">> \o Decimal(n)
                                            \o <<"-", "L">> \o Decimal(m)))
              => /\ out = Lines(n, m)
                 /\ m <= count
                      => Cardinality({i \in 1..Len(out) : out[i] = "\n"})
                           = m - n

\* A file written with "\r\n", of which lines 1..2 were asked for: the
\* result keeps the carriage return of line 1.
ClosedRangeWitness ==
    /\ pc = "done"
    /\ meta = ClassicMeta(<<"#", "L", "1", "-", "L", "2">>)
    /\ content = <<"a", CR, EOL, "b">>
    /\ result[1].value = <<"a", CR, "\n", "b">>

\* C3: classic extraction with from=n (1 when absent or 0), a dash and no toLine
\* returns F's lines from n to the end; with preserveTrailingNewline false
\* exactly one trailing empty line is dropped if F ends with a newline, and
\* with it true no line is dropped.
OpenRangeReturnsRest ==
    LET breaks == {i \in 1..Len(content) : content[i] = EOL}
        count == Cardinality(breaks) + 1
        BreakAt(k) == IF k = 0 THEN 0
                      ELSE CHOOSE i \in breaks :
                             Cardinality({j \in breaks : j <= i}) = k
        endsWithNewline == Len(content) > 0 /\ content[Len(content)] = EOL
        last == IF endsWithNewline /\ ~preserveTrailingNewline
                THEN Len(content) - 1 ELSE Len(content)
        Rest(n) == IF n > count THEN << >>
                   ELSE SubSeq(content, BreakAt(n - 1) + 1, last)
        out == result[1].value
    IN pc = "done" =>
         /\ \A n \in LineNumbers \ {0} :
              meta = ClassicMeta(<<"#", "L">> \o Decimal(n) \o <<"-">>)
              => out = Rest(n)
         /\ meta \in {ClassicMeta(<< >>), ClassicMeta(<<"#">>),
                      ClassicMeta(<<"#", "L", "0", "-">>)} => out = Rest(1)

\* A file ending with a newline, read from line 2 to its end, whose trailing
\* empty line was dropped.
OpenRangeWitness ==
    /\ pc = "done"
    /\ meta = ClassicMeta(<<"#", "L", "2", "-">>)
    /\ content = <<"a", EOL, "b", EOL>>
    /\ ~preserveTrailingNewline
    /\ result[1].value = <<"b">>

\* C10: for every directive #L<n>-L<m> with m < n, m = 0 included, parsing
\* raises no error and classic extraction returns the empty result.
InvertedRangeIsEmpty ==
    \A n \in LineNumbers : \A m \in LineNumbers :
       (m < n /\ meta = ClassicMeta(<<"#", "L">> \o Decimal(n) \o <<"-", "L">>
                                   \o Decimal(m)))
       => /\ pc # "error"
          /\ pc = "done" => result[1].value = << >>

---------------------------------------------------------------------------
(* Group extraction: claims C4, C5 and C9, under SpecGroup.  The lines of  *)
(* the file and of the template are those the inputs were built from; the  *)
(* group a line names is told from the line itself: MarkerX and RefX name  *)
(* group x, MarkerY names group y, MarkerC names group constructor, and no *)
(* other line names a group.                                               *)

\* C9: for every group name with at least 2k markers in the file, the k-th
\* template reference to it emits exactly the file lines strictly between
\* the (2k-1)-th and the 2k-th marker of that name, and no marker position
\* is consumed by more than one reference.  The references looked at are
\* those before which every reference had its pair of markers.
FifoPairConsumption ==
    LET lines == SplitOn(content, EOL)
        refs == SplitOn(oldValue, EOL)
        Name(l) == IF l \in {MarkerX, RefX} THEN "x"
                   ELSE IF l = MarkerY THEN "y"
                   ELSE IF l = MarkerC THEN "c" ELSE "none"
        Markers(e) == {i \in 1..Len(lines) : Name(lines[i]) = Name(refs[e])}
        Nth(P, j) == CHOOSE i \in P : Cardinality({q \in P : q <= i}) = j
        Rank(e) == Cardinality({f \in 1..e : Name(refs[f]) = Name(refs[e])})
        Paired(e) == Name(refs[e]) = "none"
                       \/ Cardinality(Markers(e)) >= 2 * Rank(e)
        r == result[1]
    IN result # Undefined =>
         /\ \A e \in 1..Len(refs) :
              (Name(refs[e]) # "none" /\ \A f \in 1..e : Paired(f))
              => /\ Len(r.segments) >= e
                 /\ r.segments[e] =
                      SubSeq(lines, Nth(Markers(e), 2 * Rank(e) - 1) + 1,
                             Nth(Markers(e), 2 * Rank(e)) - 1)
                 /\ r.shifted[e] = <<Nth(Markers(e), 2 * Rank(e) - 1) - 1,
                                     Nth(Markers(e), 2 * Rank(e)) - 1>>
         /\ \A e \in 1..Len(r.shifted) : \A f \in 1..Len(r.shifted) :
              (e < f /\ Name(refs[e]) = Name(refs[f]))
              => \A i \in 1..Len(r.shifted[e]) : \A j \in 1..Len(r.shifted[f]) :
                   r.shifted[e][i] # r.shifted[f][j]
         /\ \A e \in 1..Len(r.shifted) :
              Len(r.shifted[e]) = 2 => r.shifted[e][1] # r.shifted[e][2]

\* C4: whenever a reference is reached with fewer than two unconsumed
\* marker positions left for its name, no lines are emitted for it.
MissingPairEmitsNothing ==
    LET lines == SplitOn(content, EOL)
        refs == SplitOn(oldValue, EOL)
        Name(l) == IF l \in {MarkerX, RefX} THEN "x"
                   ELSE IF l = MarkerY THEN "y"
                   ELSE IF l = MarkerC THEN "c" ELSE "none"
        r == result[1]
        Total(e) ==
          Cardinality({i \in 1..Len(lines) : Name(lines[i]) = Name(refs[e])})
        Earlier(e) ==
          Cardinality({f \in 1..(e - 1) : Name(refs[f]) = Name(refs[e])})
        Left(e) == IF Total(e) > 2 * Earlier(e)
                   THEN Total(e) - 2 * Earlier(e) ELSE 0
    IN pc = "done" =>
         \A e \in 1..Len(r.segments) :
            (Name(refs[e]) # "none" /\ Left(e) < 2) => r.segments[e] = << >>

\* C5: a reference to a group with fewer than two markers left, a group with
\* no marker in the file included, raises no fatal error: the replay goes on
\* and extraction completes.
MissingPairIsNotFatal ==
    LET lines == SplitOn(content, EOL)
        refs == SplitOn(oldValue, EOL)
        Name(l) == IF l \in {MarkerX, RefX} THEN "x"
                   ELSE IF l = MarkerY THEN "y"
                   ELSE IF l = MarkerC THEN "c" ELSE "none"
    IN (\E e \in 1..Len(refs) :
          /\ Name(refs[e]) # "none"
          /\ Cardinality({i \in 1..Len(lines) : Name(lines[i]) = Name(refs[e])})
               < 2 * Cardinality({f \in 1..e : Name(refs[f]) = Name(refs[e])}))
       => /\ pc # "error"
          /\ result # Undefined
               => (~result[1].threw /\ Len(result[1].segments) = Len(refs))

---------------------------------------------------------------------------
(* The pass: claims C1, C6, C7 and C8, under SpecPass.                     *)

\* C1: with allowImportingFromOutside false, a directive whose resolved
\* path, taken relative to rootDir, begins with a parent-directory segment
\* or is absolute makes the pass fail with an error naming the resolved path
\* and the root, and that path is never read; with the option true the
\* check is skipped and the path is read.
SandboxEnforced ==
    \A i \in 1..Len(document) :
       LET d == ParseMeta(document[i].meta)
           abs == FileAbsPath(dirname, d.filePath)
           rel == Relative(rootDir, abs)
           leaves == SplitOn(rel, "/")[1] = <<".", ".">> \/ IsAbsolute(rel)
           visited == cursor > i \/ (cursor = i /\ status = "failed")
       IN (d.kind = "directive" /\ leaves) =>
            IF options.allowImportingFromOutside
            THEN (visited => abs \in reads)
            ELSE /\ abs \notin reads
                 /\ cursor <= i
                 /\ visited => error = Some([kind |-> "outside", node |-> i,
                                             path |-> abs, root |-> rootDir])

\* C8: a placeholder is processed in inline mode if and only if its
\* annotation holds a separate whitespace-delimited token that is exactly
\* the mode literal.
ModeByToken ==
    \A j \in 1..Len(modes) :
       LET tokens == SplitOn(document[modes[j].node].meta, " ")
       IN modes[j].mode = "inline"
            <=> \E t \in 1..Len(tokens) : tokens[t] = InlineWord

\* C6: when the pass completes without a fatal error, every placeholder's
\* final body is the one the sequential strategy gives it (the outcome of
\* its own directive on its own original body), under either strategy and
\* whatever the order in which the concurrent reads complete.
SameBodiesUnderBothStrategies ==
    LET Sequential(node) ==
          IF ParseMeta(node.meta).kind = "skip" THEN node.value
          ELSE Stored(Import(FileAbsPath(dirname, ParseMeta(node.meta).filePath),
                             ParseMeta(node.meta), node.value,
                             preserveTrailingNewline).value)
    IN status = "done" =>
         \A i \in 1..Len(tree) :
            /\ tree[i].meta = document[i].meta
            /\ tree[i].value = Sequential(document[i])

\* A concurrent pass over two placeholders completed, both bodies replaced,
\* each by its own import.
SameBodiesWitness ==
    /\ status = "done"
    /\ options.async
    /\ Len(promises) = 2
    /\ written = {1, 2}
    /\ tree[1].value = <<"2">>
    /\ tree[2].value = Join(<<<<"1">>, MarkerX, <<"2">>, MarkerX, <<"3">>>>,
                            <<"\n">>)

\* C7 as stated: whenever a pass ends in a fatal condition, no placeholder's
\* body has been replaced at the time of the failure or is replaced
\* afterwards.
NoPartialDocument == status = "failed" => written = {}

\* C7, amended: whenever a pass ends in a fatal condition the caller
\* receives the error, the placeholder whose directive failed is never
\* replaced, and no placeholder after it is replaced when the failure is
\* raised inside the loop (any failure of the sequential strategy, a parse
\* error or a sandbox violation of the concurrent one).
FailingPlaceholderUntouched ==
    status = "failed" =>
      /\ error # Undefined
      /\ error[1].node \notin written
      /\ (~options.async \/ error[1].kind \in {"parse", "outside"})
           => \A j \in error[1].node..Len(tree) : j \notin written

\* A concurrent pass failed on the sandbox check of its second placeholder,
\* and the first placeholder was replaced after that failure.
FailingPlaceholderWitness ==
    /\ status = "failed"
    /\ options.async
    /\ error # Undefined
    /\ error[1].kind = "outside"
    /\ error[1].node = 2
    /\ written = {1}

===========================================================================
